---- MODULE Spec2Model ----
(***************************************************************************)
(* Model of the remote interactive shell client, src/src/commands/shell.js *)
(* (class ShellClient and the shell() entry point).                        *)
(*                                                                         *)
(* The client runs on one event loop.  Every action below is one callback  *)
(* dispatched by that loop (a transport event, a timer, a local input      *)
(* event) or the continuation of the awaited connect() promise, which the  *)
(* loop runs before it dispatches the next event.  The transport (the ws   *)
(* library) and the user are the environment.                              *)
(***************************************************************************)
EXTENDS Integers, Sequences, FiniteSets, TLC

(***************************************************************************)
(* Bounds of the model (not program constants).                            *)
(***************************************************************************)
\* lines by which the longest snapshot exceeds the display window
ExtraLines == 2
\* cap on the number of readline interfaces the model lets exist at once
MaxTerminals == 2
MaxTicks == 2

(***************************************************************************)
(* Program constants.                                                      *)
(***************************************************************************)
maxReconnectAttempts == 3
BackoffUnit == 2000
WindowLines == 40
CloseNormal == 1000
CloseUnauthorized == 4001
CloseForbidden == 4003

(***************************************************************************)
(* Strings are sequences of one-character strings.                         *)
(***************************************************************************)
NL == "\n"
ETX == "^C"
Blank == {" ", "\t", NL}

Str_exit == <<"e", "x", "i", "t">>
Str_quit == <<"q", "u", "i", "t">>
Str_ls == <<"l", "s">>

RECURSIVE TrimLeft(_)
TrimLeft(s) ==
    IF s # <<>> /\ Head(s) \in Blank THEN TrimLeft(Tail(s)) ELSE s

RECURSIVE TrimRight(_)
TrimRight(s) ==
    IF s # <<>> /\ s[Len(s)] \in Blank
    THEN TrimRight(SubSeq(s, 1, Len(s) - 1))
    ELSE s

\* String.prototype.trim
Trim(s) == TrimRight(TrimLeft(s))

\* String.prototype.split(sep) for a one-character separator: the list of
\* the pieces between separators; the empty string gives one empty piece.
\* Computed by halves: the last piece of the left half and the first piece
\* of the right half are one piece of the whole.
RECURSIVE Split(_, _)
Split(s, sep) ==
    IF Len(s) = 0 THEN << <<>> >>
    ELSE IF Len(s) = 1
         THEN IF s[1] = sep THEN << <<>>, <<>> >> ELSE <<s>>
         ELSE LET m == Len(s) \div 2
                  L == Split(SubSeq(s, 1, m), sep)
                  R == Split(SubSeq(s, m + 1, Len(s)), sep)
              IN  SubSeq(L, 1, Len(L) - 1) \o <<L[Len(L)] \o R[1]>> \o Tail(R)

\* Array.prototype.slice(-n): the last n elements, all of them when fewer
SliceLast(a, n) ==
    IF Len(a) <= n THEN a ELSE SubSeq(a, Len(a) - n + 1, Len(a))

\* Array.prototype.slice(0, n): the first n elements
SliceFirst(a, n) ==
    IF Len(a) <= n THEN a ELSE SubSeq(a, 1, n)

\* Array.prototype.join(sep)
RECURSIVE Join(_, _)
Join(a, sep) ==
    IF a = <<>> THEN <<>>
    ELSE IF Len(a) = 1 THEN a[1]
         ELSE a[1] \o <<sep>> \o Join(Tail(a), sep)

(***************************************************************************)
(* JavaScript values a JSON frame can carry in a field.                    *)
(***************************************************************************)
JsStr(s) == [t |-> "string", v |-> s]
JsUndefined == [t |-> "undefined", v |-> <<>>]
JsNumber == [t |-> "number", v |-> <<>>]

(***************************************************************************)
(* Snapshots the remote side may send.                                     *)
(***************************************************************************)
Digit == <<"0", "1", "2", "3", "4", "5", "6", "7", "8", "9">>

\* the text of line i of a generated snapshot
LineText(c, i) == <<c, Digit[(i \div 10) + 1], Digit[(i % 10) + 1]>>

\* a snapshot of n lines
MkScreen(c, n) == Join([i \in 1..n |-> LineText(c, i)], NL)

MaxLines == WindowLines + ExtraLines

Snapshots ==
    {<<>>, <<"$", NL>>}
    \cup {MkScreen("a", n) : n \in WindowLines..MaxLines}
    \cup {MkScreen("b", MaxLines) \o <<NL>>}

(***************************************************************************)
(* Inbound frames.  json says what JSON.parse makes of the frame's text:   *)
(* "invalid" (it throws), "null", "scalar" (a string or a number) or       *)
(* "object"; the other fields are the object's members, "undefined" when   *)
(* absent, and hasData says whether the member data is an object.          *)
(***************************************************************************)
Frame(json, type, action, hasData, sid, status, screen) ==
    [json |-> json, type |-> type, action |-> action, hasData |-> hasData,
     session_id |-> sid, status |-> status, screen |-> screen]

NoFields(json) ==
    Frame(json, "undefined", "undefined", FALSE, "undefined", "undefined",
          JsUndefined)

Control(action, hasData, sid, status) ==
    Frame("object", "control", action, hasData, sid, status, JsUndefined)

Output(hasData, screen) ==
    Frame("object", "output", "undefined", hasData, "undefined", "undefined",
          screen)

Typed(type) ==
    Frame("object", type, "undefined", FALSE, "undefined", "undefined",
          JsUndefined)

ControlFrames ==
    {Control("session_ready", TRUE, "abc", "creating"),
     Control("session_ready", TRUE, "abc", "active"),
     Control("session_ready", TRUE, "undefined", "active"),
     Control("session_ready", TRUE, "abc", "undefined"),
     Control("session_ready", FALSE, "undefined", "undefined"),
     Control("session_active", FALSE, "undefined", "undefined"),
     Control("session_active", TRUE, "abc", "active"),
     Control("error", TRUE, "undefined", "undefined"),
     Control("error", FALSE, "undefined", "undefined"),
     Control("resize", FALSE, "undefined", "undefined"),
     Control("undefined", FALSE, "undefined", "undefined")}

OutputFrames ==
    {Output(TRUE, JsStr(s)) : s \in Snapshots}
    \cup {Output(FALSE, JsUndefined), Output(TRUE, JsUndefined),
          Output(TRUE, JsNumber)}

OtherFrames ==
    {NoFields("invalid"), NoFields("null"), NoFields("scalar"),
     NoFields("object"), Typed("pong"), Typed("ping"), Typed("resize"),
     Frame("object", "resize", "undefined", TRUE, "undefined", "undefined",
           JsStr(<<"$", NL>>))}

Frames == ControlFrames \cup OutputFrames \cup OtherFrames

\* the type discriminators handleMessage knows
KnownTypes == {"control", "output", "pong"}

\* a frame that is not parseable JSON, or parses but violates the schema
Malformed(f) ==
    \/ f.json # "object"
    \/ f.type = "undefined"
    \/ /\ f.type = "control"
       /\ \/ f.action = "undefined"
          \/ f.action \in {"session_ready", "error"} /\ ~f.hasData
          \/ f.action = "session_ready" /\ f.session_id = "undefined"
    \/ /\ f.type = "output"
       /\ (~f.hasData \/ f.screen.t # "string")

\* an output message that carries a snapshot
WellFormedOutput(f) == ~Malformed(f) /\ f.type = "output"

\* a frame that parses to a value whose type discriminator is unknown
UnknownType(f) == f.json \in {"object", "scalar"} /\ f.type \notin KnownTypes

(***************************************************************************)
(* buildWebSocketUrl(): the URL of the transport, from the client's fields. *)
(***************************************************************************)
Str_http == <<"h", "t", "t", "p", ":", "/", "/">>
Str_https == <<"h", "t", "t", "p", "s", ":", "/", "/">>
Str_ws == <<"w", "s", ":", "/", "/">>
Str_wss == <<"w", "s", "s", ":", "/", "/">>
Str_apiV1 == <<"/", "a", "p", "i", "/", "v", "1">>
Str_shellConnect == <<"/", "s", "h", "e", "l", "l", "/", "c", "o", "n", "n", "e", "c", "t">>
Str_app == <<"?", "a", "p", "p", "=">>
Str_token == <<"&", "t", "o", "k", "e", "n", "=">>

StartsWith(s, p) == Len(p) <= Len(s) /\ SubSeq(s, 1, Len(p)) = p
EndsWith(s, p) ==
    Len(p) <= Len(s) /\ SubSeq(s, Len(s) - Len(p) + 1, Len(s)) = p

\* s.replace(/^p/, r) for a literal p
ReplacePrefix(s, p, r) ==
    IF StartsWith(s, p) THEN r \o SubSeq(s, Len(p) + 1, Len(s)) ELSE s

\* s.replace(/p$/, '') for a literal p
RemoveSuffix(s, p) ==
    IF EndsWith(s, p) THEN SubSeq(s, 1, Len(s) - Len(p)) ELSE s

buildWebSocketUrl_KeepSuffix(apiUrl, app, tok) ==
    LET wsUrl1 == ReplacePrefix(ReplacePrefix(apiUrl, Str_http, Str_ws),
                                Str_https, Str_wss)
    IN  wsUrl1 \o Str_apiV1 \o Str_shellConnect
            \o Str_app \o app \o Str_token \o tok

buildWebSocketUrl(apiUrl, app, tok) ==
    LET wsUrl1 == ReplacePrefix(ReplacePrefix(apiUrl, Str_http, Str_ws),
                                Str_https, Str_wss)
        wsUrl2 == RemoveSuffix(wsUrl1, Str_apiV1)
    IN  wsUrl2 \o Str_apiV1 \o Str_shellConnect
            \o Str_app \o app \o Str_token \o tok

\* base URLs of the control plane: a scheme, a host, a path
Schemes == {Str_http, Str_https, <<"H", "T", "T", "P", ":", "/", "/">>, <<"f", "t", "p", ":", "/", "/">>}
Paths ==
    {<<>>, Str_apiV1, Str_apiV1 \o <<"/">>, <<"/", "p">>, <<"/", "p">> \o Str_apiV1,
     <<"/", "a", "p", "i", "/", "v", "1", "0">>}
ServerUrls == {sc \o <<"h">> \o pa : sc \in Schemes, pa \in Paths}
ApplicationUuids == {<<"a", "1">>, <<"b", "2">>}
Tokens == {<<"s", "t", "_", "x">>, <<"c", "w", "_", "y">>}

(***************************************************************************)
(* lib/config.js: the stored user and the checks of its credential.        *)
(* Times are in ms.  expiresAt is what new Date(user.expiresAt) makes of   *)
(* the stored member: absent, not a date (NaN) or a time.                  *)
(***************************************************************************)
DayMs == 24 * 60 * 60 * 1000
SevenDaysMs == 7 * 24 * 60 * 60 * 1000

\* the clock when the model starts, and how far it runs
ClockStart == DayMs
MaxClock == ClockStart + MaxTicks

NoExpiry == [k |-> "undefined", t |-> 0]
InvalidDate == [k |-> "invalid", t |-> 0]
DateAt(t) == [k |-> "date", t |-> t]

\* now >= expirationDate and expirationDate <= limit; false for NaN
NotBefore(now, e) == e.k = "date" /\ now >= e.t
NotAfter(e, limit) == e.k = "date" /\ e.t <= limit

ExpiryTimes ==
    {0, ClockStart - 1, ClockStart, ClockStart + 1, ClockStart + 5 * DayMs,
     ClockStart + SevenDaysMs - 1, ClockStart + SevenDaysMs,
     ClockStart + SevenDaysMs + 1, ClockStart + 8 * DayMs}

Expiries == {NoExpiry, InvalidDate} \cup {DateAt(t) : t \in ExpiryTimes}

\* getUser(): null, or the stored object with the members it has
NoUser ==
    [stored |-> FALSE, email |-> FALSE, sessionToken |-> FALSE,
     apiKey |-> FALSE, expiresAt |-> NoExpiry]

Users ==
    [stored : {TRUE}, email : BOOLEAN, sessionToken : BOOLEAN,
     apiKey : BOOLEAN, expiresAt : Expiries]

isTokenExpired(u, now) ==
    IF ~u.stored \/ u.expiresAt.k = "undefined" THEN FALSE
    ELSE NotBefore(now, u.expiresAt)

isAuthenticated_IgnoreExpiry(u, now) ==
    IF ~u.stored \/ ~u.email THEN FALSE
    ELSE IF u.sessionToken THEN TRUE
    ELSE u.apiKey

isAuthenticated(u, now) ==
    IF ~u.stored \/ ~u.email THEN FALSE
    ELSE IF u.sessionToken
         THEN IF u.expiresAt.k # "undefined" /\ NotBefore(now, u.expiresAt)
              THEN FALSE
              ELSE TRUE
         ELSE u.apiKey

\* now is the clock it reads, later the clock isTokenExpired() reads
isTokenExpiringSoon(u, now, later) ==
    IF ~u.stored \/ u.expiresAt.k = "undefined" THEN FALSE
    ELSE /\ NotAfter(u.expiresAt, now + SevenDaysMs)
         /\ ~isTokenExpired(u, later)

Answer(fn, value, now, later) ==
    [fn |-> fn, value |-> value, now |-> now, later |-> later]

(***************************************************************************)
(* Local input lines.                                                      *)
(***************************************************************************)
Lines ==
    {Str_ls, <<" ">> \o Str_ls \o <<" ">>, Str_exit,
     <<" ">> \o Str_quit \o <<"\t">>, <<>>}

(***************************************************************************)
(* State.                                                                  *)
(***************************************************************************)
VARIABLES
    \* fields of ShellClient
    serverUrl,          \* this.serverUrl
    token,              \* this.token
    applicationUuid,    \* this.applicationUuid
    ws,                 \* this.ws: "null", or the readyState of the transport
    sessionId,          \* this.sessionId
    connected,          \* this.connected
    rl,                 \* this.rl is not null
    lastScreen,         \* this.lastScreen
    reconnectAttempts,  \* this.reconnectAttempts
    shouldReconnect,    \* this.shouldReconnect
    \* the runtime: timers, listeners, the connect() promise, the process
    timeout,            \* the connect timeout of the current transport is armed
    delay,              \* the pending backoff timer's delay in ms, 0 when none
    heartbeats,         \* number of armed heartbeat intervals
    terminals,          \* number of readline interfaces listening on stdin
    promise,            \* connect() promise: "none", "pending", "resolved", "rejected"
    rejectReason,       \* the message of the error the promise was rejected with
    caller,             \* who awaits connect(): "shell" or "handleReconnect"
    cont,               \* the awaiting caller's continuation is queued
    exited,             \* process.exit was called, or the process crashed
    exitCode,           \* the exit code, once exited
    unhandled,          \* an error escaped every handler
    wsUrl,              \* the URL the last transport was created with
    \* the global configuration and the clock (lib/config.js)
    user,               \* what globalConfig holds under 'user'
    clock,              \* the time, in ms
    answer,             \* the last call of a credential check, its result
    \* what the last callback did
    ev,                 \* the event it handled
    out,                \* the operations it made on the transport, in order
    term,               \* the texts it wrote to the terminal with console.log
    log,                \* the notices it logged
    \* history
    session,            \* session state of the current connection (spec 4.2)
    prevScreen,         \* snapshot of the last well-formed output message
    run,                \* that message began a run of snapshots or repeated one
    failures,           \* transient closes handled since the last open
    attemptsAtOpen      \* value of reconnectAttempts when the last open arrived

clientVars ==
    <<ws, sessionId, connected, rl, lastScreen, reconnectAttempts,
      shouldReconnect>>
runtimeVars ==
    <<timeout, delay, heartbeats, terminals, promise, rejectReason, caller,
      cont, exited, exitCode, unhandled>>
stepVars == <<ev, out, term, log>>
historyVars == <<session, prevScreen, run, failures, attemptsAtOpen>>
configVars == <<serverUrl, token, applicationUuid>>
storeVars == <<user, clock, answer>>
vars ==
    <<clientVars, runtimeVars, stepVars, historyVars, configVars, wsUrl,
      storeVars>>

NoScreen == [t |-> "none", v |-> <<>>]

(***************************************************************************)
(* The message handlers, as functions of the part of the state they touch. *)
(* st.threw says that the handler threw; what it did before stays done.    *)
(***************************************************************************)
HandlerState ==
    [sessionId |-> sessionId, rl |-> rl, terminals |-> terminals,
     lastScreen |-> lastScreen, session |-> session,
     term |-> <<>>, log |-> <<>>, threw |-> FALSE]

Throw(st) == [st EXCEPT !.threw = TRUE]
Log(st, notice) == [st EXCEPT !.log = Append(@, notice)]

\* startTerminal: a new readline interface with its listeners; the one
\* this.rl named before, if any, is not closed
startTerminal(st) ==
    [st EXCEPT !.rl = TRUE, !.terminals = @ + 1]

handleControlMessage(st, m) ==
    IF m.action = "session_ready"
    THEN IF ~m.hasData THEN Throw(st)
         ELSE LET s1 == [st EXCEPT !.sessionId = m.session_id] IN
              IF m.status = "creating"
              THEN Log(s1, "Container is being created, please wait...")
              ELSE IF m.status = "active"
                   THEN startTerminal(
                            [Log(s1, "Shell session ready!")
                                EXCEPT !.session = "Active"])
                   ELSE s1
    ELSE IF m.action = "session_active"
         THEN LET s1 == [Log(st, "Container is ready!")
                            EXCEPT !.session = "Active"] IN
              IF ~s1.rl THEN startTerminal(s1) ELSE s1
         ELSE IF m.action = "error"
              THEN IF ~m.hasData THEN Throw(st) ELSE Log(st, "Server error:")
              ELSE st

\* what console.log writes for a snapshot: its last WindowLines lines
DisplayText_First(screen) ==
    Join(SliceFirst(Split(screen, NL), WindowLines), NL)

DisplayText(screen) ==
    Join(SliceLast(Split(screen, NL), WindowLines), NL)

\* DisplayText of the model's snapshots, computed once
DisplayTable == [s \in Snapshots |-> DisplayText(s)]

Display(screen) ==
    IF screen \in Snapshots THEN DisplayTable[screen] ELSE DisplayText(screen)

handleOutputMessage_Always(st, m) ==
    IF ~m.hasData THEN Throw(st)
    ELSE IF m.screen.t # "string" THEN Throw(st)
         ELSE [st EXCEPT !.term = Append(@, Display(m.screen.v)),
                         !.lastScreen = m.screen.v]

handleOutputMessage_KeepsWindow(st, m) ==
    IF ~m.hasData THEN Throw(st)
    ELSE IF m.screen # JsStr(st.lastScreen)
         THEN IF m.screen.t # "string" THEN Throw(st)
              ELSE [st EXCEPT !.term = Append(@, Display(m.screen.v)),
                              !.lastScreen = Display(m.screen.v)]
         ELSE st

handleOutputMessage(st, m) ==
    IF ~m.hasData THEN Throw(st)
    ELSE IF m.screen # JsStr(st.lastScreen)
         THEN IF m.screen.t # "string" THEN Throw(st)
              ELSE [st EXCEPT !.term = Append(@, Display(m.screen.v)),
                              !.lastScreen = m.screen.v]
         ELSE st

handleMessage_Fallthrough(st, m) ==
    IF m.json = "null" THEN Throw(st)
    ELSE IF m.type = "control" THEN handleControlMessage(st, m)
    ELSE IF m.type = "pong" THEN st
    ELSE handleOutputMessage(Log(st, "Unknown message type:"), m)

handleMessage(st, m) ==
    IF m.json = "null" THEN Throw(st)
    ELSE IF m.type = "control" THEN handleControlMessage(st, m)
    ELSE IF m.type = "output" THEN handleOutputMessage(st, m)
    ELSE IF m.type = "pong" THEN st
    ELSE Log(st, "Unknown message type:")

\* the 'message' listener: JSON.parse and handleMessage inside try/catch
onMessage_NoCatch(st, f) ==
    IF f.json = "invalid" THEN Throw(st) ELSE handleMessage(st, f)

onMessage(st, f) ==
    LET r == IF f.json = "invalid" THEN Throw(st) ELSE handleMessage(st, f) IN
    IF r.threw
    THEN [Log(r, "Error parsing message:") EXCEPT !.threw = FALSE]
    ELSE r

(***************************************************************************)
(* Events and transport operations, as the last callback left them.        *)
(***************************************************************************)
Ev(kind, code, frame, text) ==
    [kind |-> kind, code |-> code, frame |-> frame, text |-> text]
EvKind(kind) == Ev(kind, 0, NoFields("none"), <<>>)

CommandMsg(command) == [type |-> "command", command |-> command, code |-> 0]
PingMsg == [type |-> "ping", command |-> <<>>, code |-> 0]
\* ws.close(code); code 0 stands for a close() call without a code
CloseOp(code) == [type |-> "close", command |-> <<>>, code |-> code]

\* n copies of the sequence q, one after the other
RECURSIVE Repeat(_, _)
Repeat(q, n) == IF n = 0 THEN <<>> ELSE q \o Repeat(q, n - 1)

\* the close codes of the model: the three the 'close' listener names, and
\* 1006 (abnormal closure) and 1011 (server error) for all the others
CloseCodes == {CloseNormal, CloseUnauthorized, CloseForbidden, 1006, 1011}

\* a transport that never opened closes without a close frame: code 1006
HandshakeCloseCodes == {1006}

\* the handshake errors the 'error' listener tells apart by their message
ErrorMessages == {"401", "403", "network"}

\* the fields the constructor sets, whatever its arguments
Constructed ==
    /\ ws = "null"
    /\ sessionId = "null"
    /\ connected = FALSE
    /\ rl = FALSE
    /\ lastScreen = <<>>
    /\ reconnectAttempts = 0
    /\ shouldReconnect = TRUE
    /\ timeout = FALSE
    /\ delay = 0
    /\ heartbeats = 0
    /\ terminals = 0
    /\ promise = "none"
    /\ rejectReason = "none"
    /\ caller = "none"
    /\ cont = "none"
    /\ exited = FALSE
    /\ exitCode = 0
    /\ unhandled = FALSE
    /\ ev = EvKind("init")
    /\ out = <<>>
    /\ term = <<>>
    /\ log = <<>>
    /\ session = "None"
    /\ prevScreen = NoScreen
    /\ run = "none"
    /\ failures = 0
    /\ attemptsAtOpen = 0
    /\ wsUrl = <<>>

\* the user shell() found: logged in, with a session token that never
\* expires
LoggedIn ==
    /\ user = [stored |-> TRUE, email |-> TRUE, sessionToken |-> TRUE,
               apiKey |-> FALSE, expiresAt |-> NoExpiry]
    /\ clock = ClockStart
    /\ answer = Answer("none", FALSE, 0, 0)

\* one client, for one base URL, application and credential
Init ==
    /\ Constructed
    /\ LoggedIn
    /\ serverUrl = <<"h", "t", "t", "p", "s", ":", "/", "/", "h", "/", "a", "p", "i", "/", "v", "1">>
    /\ token = <<"s", "t", "_", "x">>
    /\ applicationUuid = <<"a", "1">>

\* the loop dispatches an event only when no continuation is queued
Idle == ~exited /\ cont = "none"

(***************************************************************************)
(* connect(): a new transport, its connect timeout, a pending promise.     *)
(***************************************************************************)
connect(who) ==
    /\ ws' = "CONNECTING"
    /\ timeout' = TRUE
    /\ promise' = "pending"
    /\ rejectReason' = "none"
    /\ wsUrl' = buildWebSocketUrl(serverUrl, applicationUuid, token)
    /\ caller' = who
    /\ cont' = "none"
    /\ out' = <<>>
    /\ term' = <<>>
    /\ log' = <<"Connecting to remote shell...">>

\* shell(): the first connect
ShellStart ==
    /\ Idle
    /\ promise = "none"
    /\ connect("shell")
    /\ ev' = EvKind("start")
    /\ UNCHANGED <<configVars, storeVars>>
    /\ UNCHANGED <<sessionId, connected, rl, lastScreen, reconnectAttempts,
                   shouldReconnect, delay, heartbeats, terminals, exited,
                   exitCode, unhandled, historyVars>>

\* the backoff timer of handleReconnect expires: await this.connect()
BackoffExpire ==
    /\ Idle
    /\ delay > 0
    /\ delay' = 0
    /\ connect("handleReconnect")
    /\ ev' = Ev("backoff", delay, NoFields("none"), <<>>)
    /\ UNCHANGED <<configVars, storeVars>>
    /\ UNCHANGED <<sessionId, connected, rl, lastScreen, reconnectAttempts,
                   shouldReconnect, heartbeats, terminals, exited,
                   exitCode, unhandled, historyVars>>

(***************************************************************************)
(* cleanup(): the part of the state it writes.  It ends in process.exit(0).*)
(***************************************************************************)
cleanup_NoClose(notices) ==
    /\ log' = notices \o <<"Disconnecting from remote shell...">>
    /\ shouldReconnect' = FALSE
    /\ rl' = FALSE
    /\ terminals' = IF rl THEN terminals - 1 ELSE terminals
    /\ out' = <<>>
    /\ ws' = "null"
    /\ exited' = TRUE
    /\ exitCode' = 0

cleanup_NoExit(notices) ==
    /\ log' = notices \o <<"Disconnecting from remote shell...">>
    /\ shouldReconnect' = FALSE
    /\ rl' = FALSE
    /\ terminals' = IF rl THEN terminals - 1 ELSE terminals
    /\ out' = IF ws # "null" THEN <<CloseOp(CloseNormal)>> ELSE <<>>
    /\ ws' = "null"
    /\ exited' = exited
    /\ exitCode' = exitCode

cleanup(notices) ==
    /\ log' = notices \o <<"Disconnecting from remote shell...">>
    /\ shouldReconnect' = FALSE
    /\ rl' = FALSE
    /\ terminals' = IF rl THEN terminals - 1 ELSE terminals
    /\ out' = IF ws # "null" THEN <<CloseOp(CloseNormal)>> ELSE <<>>
    /\ ws' = "null"
    /\ exited' = TRUE
    /\ exitCode' = 0

(***************************************************************************)
(* handleReconnect(), up to its first await.                               *)
(***************************************************************************)
handleReconnect_FlatDelay(notices) ==
    IF reconnectAttempts >= maxReconnectAttempts
    THEN /\ cleanup(notices \o <<"Max reconnection attempts reached. Exiting.">>)
         /\ UNCHANGED <<reconnectAttempts, delay>>
    ELSE /\ reconnectAttempts' = reconnectAttempts + 1
         /\ delay' = BackoffUnit
         /\ log' = notices \o <<"Reconnecting in">>
         /\ ws' = "CLOSED"
         /\ out' = <<>>
         /\ UNCHANGED <<shouldReconnect, rl, terminals, exited, exitCode>>

handleReconnect_Off(notices) ==
    IF reconnectAttempts > maxReconnectAttempts
    THEN /\ cleanup(notices \o <<"Max reconnection attempts reached. Exiting.">>)
         /\ UNCHANGED <<reconnectAttempts, delay>>
    ELSE /\ reconnectAttempts' = reconnectAttempts + 1
         /\ delay' = BackoffUnit * reconnectAttempts'
         /\ log' = notices \o <<"Reconnecting in">>
         /\ ws' = "CLOSED"
         /\ out' = <<>>
         /\ UNCHANGED <<shouldReconnect, rl, terminals, exited, exitCode>>

handleReconnect(notices) ==
    IF reconnectAttempts >= maxReconnectAttempts
    THEN /\ cleanup(notices \o <<"Max reconnection attempts reached. Exiting.">>)
         /\ UNCHANGED <<reconnectAttempts, delay>>
    ELSE /\ reconnectAttempts' = reconnectAttempts + 1
         /\ delay' = BackoffUnit * reconnectAttempts'
         /\ log' = notices \o <<"Reconnecting in">>
         /\ ws' = "CLOSED"
         /\ out' = <<>>
         /\ UNCHANGED <<shouldReconnect, rl, terminals, exited, exitCode>>

(***************************************************************************)
(* Transport events.                                                       *)
(***************************************************************************)
\* the 'open' listener
ws_onOpen_NoReset ==
    /\ Idle
    /\ ws = "CONNECTING"
    /\ ws' = "OPEN"
    /\ timeout' = FALSE
    /\ connected' = TRUE
    /\ log' = <<"Connected to remote container">>
    /\ promise' = "resolved"
    /\ cont' = "resolve"
    /\ ev' = EvKind("open")
    /\ UNCHANGED <<configVars, wsUrl, storeVars>>
    /\ out' = <<>>
    /\ term' = <<>>
    /\ session' = "AwaitingCreation"
    /\ failures' = 0
    /\ attemptsAtOpen' = reconnectAttempts
    /\ UNCHANGED <<sessionId, rl, lastScreen, shouldReconnect, delay,
                   heartbeats, terminals, rejectReason, caller, exited,
                   exitCode, unhandled, prevScreen, run, reconnectAttempts>>

ws_onOpen ==
    /\ Idle
    /\ ws = "CONNECTING"
    /\ ws' = "OPEN"
    /\ timeout' = FALSE
    /\ connected' = TRUE
    /\ reconnectAttempts' = 0
    /\ log' = <<"Connected to remote container">>
    /\ promise' = "resolved"
    /\ cont' = "resolve"
    /\ ev' = EvKind("open")
    /\ UNCHANGED <<configVars, wsUrl, storeVars>>
    /\ out' = <<>>
    /\ term' = <<>>
    /\ session' = "AwaitingCreation"
    /\ failures' = 0
    /\ attemptsAtOpen' = reconnectAttempts
    /\ UNCHANGED <<sessionId, rl, lastScreen, shouldReconnect, delay,
                   heartbeats, terminals, rejectReason, caller, exited,
                   exitCode, unhandled, prevScreen, run>>

\* the 'message' listener
ws_onMessage(f) ==
    /\ Idle
    /\ ws = "OPEN"
    /\ LET r == onMessage(HandlerState, f) IN
       /\ r.terminals <= MaxTerminals
       /\ sessionId' = r.sessionId
       /\ rl' = r.rl
       /\ terminals' = r.terminals
       /\ lastScreen' = r.lastScreen
       /\ session' = r.session
       /\ term' = r.term
       /\ log' = r.log
       /\ unhandled' = r.threw
       /\ exited' = r.threw
       /\ exitCode' = IF r.threw THEN 1 ELSE exitCode
    /\ out' = <<>>
    /\ ev' = Ev("message", 0, f, <<>>)
    /\ UNCHANGED <<configVars, wsUrl, storeVars>>
    /\ prevScreen' = IF WellFormedOutput(f) THEN f.screen ELSE prevScreen
    /\ run' = IF ~WellFormedOutput(f) THEN run
              ELSE IF prevScreen = NoScreen THEN "first"
                   ELSE IF f.screen = prevScreen THEN "repeat" ELSE "new"
    /\ UNCHANGED <<ws, connected, reconnectAttempts, shouldReconnect,
                   timeout, delay, heartbeats, promise, rejectReason, caller,
                   cont, failures, attemptsAtOpen>>

\* the transport leaves OPEN (a close frame arrived, the socket failed)
\* before its 'close' event is dispatched
TransportClosing ==
    /\ Idle
    /\ ws = "OPEN"
    /\ ws' = "CLOSING"
    /\ ev' = EvKind("closing")
    /\ UNCHANGED <<configVars, wsUrl, storeVars>>
    /\ out' = <<>>
    /\ term' = <<>>
    /\ log' = <<>>
    /\ UNCHANGED <<sessionId, connected, rl, lastScreen, reconnectAttempts,
                   shouldReconnect, runtimeVars, historyVars>>

\* the codes that make the close of a connection transient
Transient(code, terminalCodes) == code # CloseNormal /\ code \notin terminalCodes

\* the 'close' listener, for the set of codes it never reconnects on
closeListener(code, noRetry) ==
    /\ ~exited
    /\ cont \in {"none", "reject"}
    /\ ws \in {"OPEN", "CLOSING"}
    /\ connected \/ code \in HandshakeCloseCodes
    /\ connected' = FALSE
    /\ IF code = CloseNormal
       THEN /\ log' = <<"Disconnected from remote shell">>
            /\ ws' = "CLOSED"
            /\ out' = <<>>
            /\ UNCHANGED <<reconnectAttempts, delay, shouldReconnect, rl,
                           terminals, exited, exitCode>>
       ELSE IF shouldReconnect /\ code \notin noRetry
            THEN handleReconnect(<<"Disconnected:">>)
            ELSE /\ log' = <<"Disconnected:">>
                 /\ ws' = "CLOSED"
                 /\ out' = <<>>
                 /\ UNCHANGED <<reconnectAttempts, delay, shouldReconnect, rl,
                                terminals, exited, exitCode>>
    /\ ev' = Ev("close", code, NoFields("none"), <<>>)
    /\ UNCHANGED <<configVars, wsUrl, storeVars>>
    /\ term' = <<>>
    /\ session' = "None"
    /\ failures' = IF Transient(code, {CloseUnauthorized, CloseForbidden})
                   THEN failures + 1 ELSE failures
    /\ UNCHANGED <<sessionId, lastScreen, timeout, heartbeats, promise,
                   rejectReason, caller, cont, unhandled, prevScreen, run,
                   attemptsAtOpen>>

ws_onClose_RetryForbidden(code) == closeListener(code, {CloseUnauthorized})

ws_onClose(code) == closeListener(code, {CloseUnauthorized, CloseForbidden})

\* what the 'error' listener rejects the promise with
RejectionOf(msg) ==
    IF msg = "401" THEN "Authentication failed"
    ELSE IF msg = "403" THEN "Access denied"
    ELSE "network"

\* the 'error' listener; the transport is CLOSING when it runs
ws_onError_Reconnects(msg) ==
    /\ ~exited
    /\ cont \in {"none", "reject"}
    /\ ws \in {"CONNECTING", "OPEN", "CLOSING"}
    /\ ws' = "CLOSING"
    /\ timeout' = FALSE
    /\ log' = <<IF msg = "401" THEN "Authentication failed"
                ELSE IF msg = "403"
                     THEN "Access denied - you do not own this application"
                     ELSE "WebSocket error:">>
    /\ IF promise = "pending"
       THEN /\ promise' = "rejected"
            /\ rejectReason' = RejectionOf(msg)
            /\ cont' = "reject"
       ELSE UNCHANGED <<promise, rejectReason, cont>>
    /\ ev' = Ev("error", 0, NoFields("none"), <<msg>>)
    /\ UNCHANGED <<configVars, wsUrl, storeVars>>
    /\ out' = <<>>
    /\ term' = <<>>
    /\ reconnectAttempts' =
          IF reconnectAttempts < maxReconnectAttempts
          THEN reconnectAttempts + 1 ELSE reconnectAttempts
    /\ delay' = BackoffUnit * reconnectAttempts'
    /\ UNCHANGED <<sessionId, connected, rl, lastScreen,
                   shouldReconnect, heartbeats, terminals, caller,
                   exited, exitCode, unhandled, historyVars>>

ws_onError(msg) ==
    /\ ~exited
    /\ cont \in {"none", "reject"}
    /\ ws \in {"CONNECTING", "OPEN", "CLOSING"}
    /\ ws' = "CLOSING"
    /\ timeout' = FALSE
    /\ log' = <<IF msg = "401" THEN "Authentication failed"
                ELSE IF msg = "403"
                     THEN "Access denied - you do not own this application"
                     ELSE "WebSocket error:">>
    /\ IF promise = "pending"
       THEN /\ promise' = "rejected"
            /\ rejectReason' = RejectionOf(msg)
            /\ cont' = "reject"
       ELSE UNCHANGED <<promise, rejectReason, cont>>
    /\ ev' = Ev("error", 0, NoFields("none"), <<msg>>)
    /\ UNCHANGED <<configVars, wsUrl, storeVars>>
    /\ out' = <<>>
    /\ term' = <<>>
    /\ UNCHANGED <<sessionId, connected, rl, lastScreen, reconnectAttempts,
                   shouldReconnect, delay, heartbeats, terminals, caller,
                   exited, exitCode, unhandled, historyVars>>

\* the connect timeout fires: reject, then this.ws.close()
ConnectTimeout ==
    /\ Idle
    /\ timeout
    /\ timeout' = FALSE
    /\ promise' = IF promise = "pending" THEN "rejected" ELSE promise
    /\ rejectReason' = IF promise = "pending" THEN "Connection timeout"
                       ELSE rejectReason
    /\ cont' = IF promise = "pending" THEN "reject" ELSE cont
    /\ ws' = IF ws = "null" THEN ws ELSE "CLOSING"
    /\ out' = IF ws = "null" THEN <<>> ELSE <<CloseOp(0)>>
    /\ ev' = EvKind("timeout")
    /\ UNCHANGED <<configVars, wsUrl, storeVars>>
    /\ term' = <<>>
    /\ log' = <<>>
    /\ UNCHANGED <<sessionId, connected, rl, lastScreen, reconnectAttempts,
                   shouldReconnect, delay, heartbeats, terminals, caller,
                   exited, exitCode, unhandled, historyVars>>

(***************************************************************************)
(* Continuations of the awaited connect() promise.                         *)
(***************************************************************************)
\* shell(): connect() resolved, client.startHeartbeat()
ShellAfterConnect ==
    /\ ~exited
    /\ cont = "resolve"
    /\ caller = "shell"
    /\ cont' = "none"
    /\ heartbeats' = heartbeats + 1
    /\ ev' = EvKind("connected")
    /\ UNCHANGED <<configVars, wsUrl, storeVars>>
    /\ out' = <<>>
    /\ term' = <<>>
    /\ log' = <<>>
    /\ UNCHANGED <<clientVars, timeout, delay, terminals, promise,
                   rejectReason, caller, exited, exitCode, unhandled,
                   historyVars>>

\* shell(): connect() rejected, the catch block ends in process.exit(1)
ShellCatch ==
    /\ ~exited
    /\ cont = "reject"
    /\ caller = "shell"
    /\ cont' = "none"
    /\ exited' = TRUE
    /\ exitCode' = 1
    /\ log' = <<IF rejectReason = "Authentication failed"
                THEN "Authentication failed. Please login again:"
                ELSE IF rejectReason = "Access denied"
                     THEN "Access denied. You do not own this application."
                     ELSE IF rejectReason = "Connection timeout"
                          THEN "Connection timeout."
                          ELSE "Failed to connect:">>
    /\ ev' = EvKind("connectFailed")
    /\ UNCHANGED <<configVars, wsUrl, storeVars>>
    /\ out' = <<>>
    /\ term' = <<>>
    /\ UNCHANGED <<clientVars, timeout, delay, heartbeats, terminals, promise,
                   rejectReason, caller, unhandled, historyVars>>

\* handleReconnect(): connect() resolved, nothing follows the await
ReconnectAfterConnect_Heartbeat ==
    /\ ~exited
    /\ cont = "resolve"
    /\ caller = "handleReconnect"
    /\ cont' = "none"
    /\ heartbeats' = heartbeats + 1
    /\ ev' = EvKind("reconnected")
    /\ UNCHANGED <<configVars, wsUrl, storeVars>>
    /\ out' = <<>>
    /\ term' = <<>>
    /\ log' = <<>>
    /\ UNCHANGED <<clientVars, timeout, delay, terminals, promise,
                   rejectReason, caller, exited, exitCode, unhandled,
                   historyVars>>

ReconnectAfterConnect ==
    /\ ~exited
    /\ cont = "resolve"
    /\ caller = "handleReconnect"
    /\ cont' = "none"
    /\ ev' = EvKind("reconnected")
    /\ UNCHANGED <<configVars, wsUrl, storeVars>>
    /\ out' = <<>>
    /\ term' = <<>>
    /\ log' = <<>>
    /\ UNCHANGED <<clientVars, timeout, delay, heartbeats, terminals, promise,
                   rejectReason, caller, exited, exitCode, unhandled,
                   historyVars>>

\* handleReconnect(): connect() rejected, the catch block logs
ReconnectCatch ==
    /\ ~exited
    /\ cont = "reject"
    /\ caller = "handleReconnect"
    /\ cont' = "none"
    /\ ev' = EvKind("reconnectFailed")
    /\ UNCHANGED <<configVars, wsUrl, storeVars>>
    /\ out' = <<>>
    /\ term' = <<>>
    /\ log' = <<"Reconnection failed:">>
    /\ UNCHANGED <<clientVars, timeout, delay, heartbeats, terminals, promise,
                   rejectReason, caller, exited, exitCode, unhandled,
                   historyVars>>

(***************************************************************************)
(* Local input.                                                            *)
(***************************************************************************)
\* sendCommand(command): what it sends and what it logs
sendCommand_WithNewline(command) ==
    IF ~connected \/ ws # "OPEN"
    THEN [out |-> <<>>, log |-> <<"Not connected to server">>]
    ELSE [out |-> <<CommandMsg(command \o <<NL>>)>>, log |-> <<>>]

sendCommand(command) ==
    IF ~connected \/ ws # "OPEN"
    THEN [out |-> <<>>, log |-> <<"Not connected to server">>]
    ELSE [out |-> <<CommandMsg(command)>>, log |-> <<>>]

\* the 'line' listener of every readline interface
UserLine_Silent(input) ==
    /\ Idle
    /\ terminals >= 1
    /\ LET command == Trim(input) IN
       IF command = Str_exit \/ command = Str_quit
       THEN /\ cleanup(<<>>)
            /\ UNCHANGED <<connected, reconnectAttempts>>
       ELSE /\ IF connected /\ ws = "OPEN"
               THEN /\ out' = Repeat(sendCommand(command).out, terminals)
                    /\ log' = Repeat(sendCommand(command).log, terminals)
               ELSE /\ out' = <<>>
                    /\ log' = <<>>
            /\ UNCHANGED <<clientVars, terminals, exited, exitCode>>
    /\ ev' = Ev("line", 0, NoFields("none"), input)
    /\ UNCHANGED <<configVars, wsUrl, storeVars>>
    /\ term' = <<>>
    /\ UNCHANGED <<sessionId, lastScreen, timeout, delay, heartbeats, promise,
                   rejectReason, caller, cont, unhandled, historyVars>>

UserLine(input) ==
    /\ Idle
    /\ terminals >= 1
    /\ LET command == Trim(input) IN
       IF command = Str_exit \/ command = Str_quit
       THEN /\ cleanup(<<>>)
            /\ UNCHANGED <<connected, reconnectAttempts>>
       ELSE /\ IF connected /\ ws = "OPEN"
               THEN /\ out' = Repeat(sendCommand(command).out, terminals)
                    /\ log' = Repeat(sendCommand(command).log, terminals)
               ELSE /\ out' = <<>>
                    /\ log' = Repeat(<<"Not connected to server">>, terminals)
            /\ UNCHANGED <<clientVars, terminals, exited, exitCode>>
    /\ ev' = Ev("line", 0, NoFields("none"), input)
    /\ UNCHANGED <<configVars, wsUrl, storeVars>>
    /\ term' = <<>>
    /\ UNCHANGED <<sessionId, lastScreen, timeout, delay, heartbeats, promise,
                   rejectReason, caller, cont, unhandled, historyVars>>

\* the 'SIGINT' listener of every readline interface (Ctrl+C)
RlSigint ==
    /\ Idle
    /\ terminals >= 1
    /\ IF connected
       THEN /\ out' = Repeat(sendCommand(<<ETX>>).out, terminals)
            /\ log' = Repeat(sendCommand(<<ETX>>).log, terminals)
       ELSE /\ out' = <<>>
            /\ log' = <<>>
    /\ ev' = EvKind("rlSigint")
    /\ UNCHANGED <<configVars, wsUrl, storeVars>>
    /\ term' = <<>>
    /\ UNCHANGED <<clientVars, runtimeVars, historyVars>>

\* the 'keypress' listener of stdin sees Ctrl+D
KeypressCtrlD ==
    /\ Idle
    /\ terminals >= 1
    /\ cleanup(<<>>)
    /\ ev' = EvKind("ctrlD")
    /\ UNCHANGED <<configVars, wsUrl, storeVars>>
    /\ term' = <<>>
    /\ UNCHANGED <<sessionId, connected, lastScreen, reconnectAttempts,
                   timeout, delay, heartbeats, promise, rejectReason, caller,
                   cont, unhandled, historyVars>>

\* process.on('SIGTERM'); shell() registers the listener in the same run
\* that calls connect(), so the signal is handled after that call
ProcessSigterm ==
    /\ Idle
    /\ promise # "none"
    /\ cleanup(<<>>)
    /\ ev' = EvKind("SIGTERM")
    /\ UNCHANGED <<configVars, wsUrl, storeVars>>
    /\ term' = <<>>
    /\ UNCHANGED <<sessionId, connected, lastScreen, reconnectAttempts,
                   timeout, delay, heartbeats, promise, rejectReason, caller,
                   cont, unhandled, historyVars>>

\* process.on('SIGINT'): an empty listener.  The signal reaches the process
\* in any state; a Ctrl+C that readline reads as a key goes to RlSigint
ProcessSigint ==
    /\ Idle
    /\ promise # "none"
    /\ ev' = EvKind("SIGINT")
    /\ UNCHANGED <<configVars, wsUrl, storeVars>>
    /\ out' = <<>>
    /\ term' = <<>>
    /\ log' = <<>>
    /\ UNCHANGED <<clientVars, runtimeVars, historyVars>>

(***************************************************************************)
(* The heartbeat interval of startHeartbeat() ticks.                       *)
(***************************************************************************)
HeartbeatTick_Always ==
    /\ Idle
    /\ heartbeats >= 1
    /\ out' = Repeat(<<PingMsg>>, heartbeats)
    /\ ev' = EvKind("heartbeat")
    /\ UNCHANGED <<configVars, wsUrl, storeVars>>
    /\ term' = <<>>
    /\ log' = <<>>
    /\ UNCHANGED <<clientVars, runtimeVars, historyVars>>

HeartbeatTick ==
    /\ Idle
    /\ heartbeats >= 1
    /\ out' = IF connected /\ ws = "OPEN"
              THEN Repeat(<<PingMsg>>, heartbeats) ELSE <<>>
    /\ ev' = EvKind("heartbeat")
    /\ UNCHANGED <<configVars, wsUrl, storeVars>>
    /\ term' = <<>>
    /\ log' = <<>>
    /\ UNCHANGED <<clientVars, runtimeVars, historyVars>>

Next ==
    \/ ShellStart
    \/ BackoffExpire
    \/ ws_onOpen
    \/ \E f \in Frames : ws_onMessage(f)
    \/ TransportClosing
    \/ \E code \in CloseCodes : ws_onClose(code)
    \/ \E msg \in ErrorMessages : ws_onError(msg)
    \/ ConnectTimeout
    \/ ShellAfterConnect
    \/ ShellCatch
    \/ ReconnectAfterConnect
    \/ ReconnectCatch
    \/ \E input \in Lines : UserLine(input)
    \/ RlSigint
    \/ KeypressCtrlD
    \/ ProcessSigterm
    \/ ProcessSigint
    \/ HeartbeatTick

Spec == Init /\ [][Next]_vars

\* connect() for every base URL, application and credential
UrlInit ==
    /\ Constructed
    /\ LoggedIn
    /\ serverUrl \in ServerUrls
    /\ token \in Tokens
    /\ applicationUuid \in ApplicationUuids

UrlNext == ShellStart

UrlSpec == UrlInit /\ [][UrlNext]_vars

(***************************************************************************)
(* The credential checks of lib/config.js, on every stored user.           *)
(***************************************************************************)
shellVars ==
    <<clientVars, runtimeVars, stepVars, historyVars, configVars, wsUrl>>

AuthInit ==
    /\ Constructed
    /\ serverUrl = <<>> /\ token = <<>> /\ applicationUuid = <<>>
    /\ user = NoUser
    /\ clock = ClockStart
    /\ answer = Answer("none", FALSE, 0, 0)

saveUser(u) ==
    /\ user' = u
    /\ answer' = Answer("none", FALSE, 0, 0)
    /\ UNCHANGED <<clock, shellVars>>

clearUser ==
    /\ user # NoUser
    /\ user' = NoUser
    /\ answer' = Answer("none", FALSE, 0, 0)
    /\ UNCHANGED <<clock, shellVars>>

\* time passes
Tick ==
    /\ clock < MaxClock
    /\ clock' = clock + 1
    /\ answer' = Answer("none", FALSE, 0, 0)
    /\ UNCHANGED <<user, shellVars>>

CallIsAuthenticated ==
    /\ answer' = Answer("isAuthenticated", isAuthenticated(user, clock),
                        clock, clock)
    /\ UNCHANGED <<user, clock, shellVars>>

CallIsTokenExpired ==
    /\ answer' = Answer("isTokenExpired", isTokenExpired(user, clock),
                        clock, clock)
    /\ UNCHANGED <<user, clock, shellVars>>

\* the clock may advance between its two readings
CallIsTokenExpiringSoon ==
    \E later \in clock..MaxClock :
        /\ answer' = Answer("isTokenExpiringSoon",
                            isTokenExpiringSoon(user, clock, later),
                            clock, later)
        /\ clock' = later
        /\ UNCHANGED <<user, shellVars>>

AuthNext ==
    \/ \E u \in Users : saveUser(u)
    \/ clearUser
    \/ Tick
    \/ CallIsAuthenticated
    \/ CallIsTokenExpired
    \/ CallIsTokenExpiringSoon

AuthSpec == AuthInit /\ [][AuthNext]_vars

\* the event loop runs a queued continuation and fires a due timer
FairSpec ==
    /\ Spec
    /\ WF_vars(BackoffExpire)
    /\ WF_vars(ShellAfterConnect \/ ShellCatch \/ ReconnectAfterConnect
               \/ ReconnectCatch)

TypeOK ==
    /\ ws \in {"null", "CONNECTING", "OPEN", "CLOSING", "CLOSED"}
    /\ connected \in BOOLEAN
    /\ reconnectAttempts \in 0..maxReconnectAttempts
    /\ delay \in Nat
    /\ terminals \in 0..MaxTerminals
    /\ heartbeats \in 0..1
    /\ cont \in {"none", "resolve", "reject"}

(***************************************************************************)
(* Properties.                                                             *)
(***************************************************************************)
SentCommands == {i \in 1..Len(out) : out[i].type = "command"}
TerminalCodes == {1000, 4001, 4003}
NLCount(s) == Cardinality({i \in 1..Len(s) : s[i] = NL})
IsSuffix(t, s) ==
    /\ Len(t) <= Len(s)
    /\ SubSeq(s, Len(s) - Len(t) + 1, Len(s)) = t
Min(a, b) == IF a <= b THEN a ELSE b
MessageEvent == ev.kind = "message"

\* C1: on every connection, the initial one and each reconnection, no
\* Command message (typed line or translated interrupt) is sent between the
\* connection reaching Open and the control message that makes the session
\* Active: whenever a callback sends a Command, the session is Active.
C1_NoCommandBeforeActive == SentCommands # {} => session = "Active"

\* C2: with f transient failures in a row and no Open in between, the f-th
\* reconnect attempt is preceded by a wait of exactly f x 2000 ms, for
\* f = 1, 2, 3; on the 4th failure no wait is started and no attempt is
\* made: the client logs the failure and shuts down.
C2_BackoffSchedule ==
    /\ delay > 0 => failures \in 1..3 /\ delay = failures * 2000
    /\ ev.kind = "backoff" =>
          /\ failures \in 1..3
          /\ ev.code = failures * 2000
          /\ ws = "CONNECTING"
    /\ failures >= 4 =>
          /\ failures = 4
          /\ exited
          /\ delay = 0
          /\ ws = "null"
          /\ \E i \in 1..Len(log) :
                log[i] = "Max reconnection attempts reached. Exiting."

C2_FourthFailure == failures = 4 /\ ev.kind = "close" /\ exited

\* C3: a transport close with code 1000, 4001 or 4003 never starts a backoff
\* wait or a reconnection attempt, whatever the attempt counter and the
\* client state: the close listener leaves no backoff timer pending, leaves
\* the counter as it was and creates no new transport.
C3_TerminalCloseNoReconnect ==
    [][(ev'.kind = "close" /\ ev'.code \in TerminalCodes) =>
          /\ delay' = 0
          /\ reconnectAttempts' = reconnectAttempts
          /\ ws' = "CLOSED"
          /\ promise' # "pending"]_vars

C3_ForbiddenAfterReconnect ==
    /\ ev.kind = "close"
    /\ ev.code = 4003
    /\ attemptsAtOpen > 0
    /\ delay = 0

\* C4: while the user has not requested exit, a transport close with a code
\* other than 1000, 4001 and 4003 that leaves the retry budget unexhausted
\* is eventually followed by a new connect attempt, made when the backoff
\* wait is over.
C4_TransientCloseReconnects ==
    (ev.kind = "close" /\ ev.code \notin TerminalCodes /\ ~exited)
        ~> (ev.kind = "backoff" \/ (exited /\ ~shouldReconnect))

\* C5: the reconnect attempt counter is between 0 and 3 (the maximum) in
\* every reachable state.
C5_AttemptsBounded == reconnectAttempts >= 0 /\ reconnectAttempts <= 3

C5_AttemptsAtMax == reconnectAttempts = 3 /\ ~exited /\ delay > 0

\* C6: every transition to Open resets the reconnect attempt counter to 0,
\* and the first transient close after an Open starts a wait of 2000 ms,
\* however many failures preceded that Open.
C6_OpenResetsCounter ==
    [][/\ ev'.kind = "open" => reconnectAttempts' = 0
       /\ (ev'.kind = "close" /\ connected /\ ev'.code \notin TerminalCodes)
             => (delay' = 2000 /\ reconnectAttempts' = 1)]_vars

C6_CloseAfterLateOpen ==
    /\ ev.kind = "close"
    /\ ev.code \notin TerminalCodes
    /\ attemptsAtOpen = 3
    /\ failures = 1
    /\ delay = 2000

C8_LastFortyLines ==
    term # <<>> =>
        LET s == ev.frame.screen.v
            t == term[1]
        IN  /\ MessageEvent
            /\ Len(term) = 1
            /\ IsSuffix(t, s)
            /\ NLCount(t) + 1 = Min(40, NLCount(s) + 1)
            /\ Len(t) < Len(s) => s[Len(s) - Len(t)] = NL

C8_LongSnapshotPainted ==
    /\ term # <<>>
    /\ NLCount(ev.frame.screen.v) + 1 > 40
    /\ Len(term[1]) < Len(ev.frame.screen.v)

\* C9: an inbound frame that is not parseable JSON or violates the schema
\* leaves the connection state (connected flag, transport, reconnect counter
\* and timers) unchanged, closes nothing and raises no unhandled error.
C9_MalformedFrameHarmless ==
    [][(ev'.kind = "message" /\ Malformed(ev'.frame)) =>
          /\ UNCHANGED <<ws, connected, reconnectAttempts, shouldReconnect,
                         timeout, delay, promise, cont>>
          /\ out' = <<>>
          /\ ~unhandled'
          /\ ~exited']_vars

C9_ParseErrorCaught ==
    /\ MessageEvent
    /\ Malformed(ev.frame)
    /\ log = <<"Error parsing message:">>
    /\ ws = "OPEN"
    /\ connected

\* C10: an inbound frame whose type discriminator is not control, output or
\* pong is logged and dropped: it changes no client state, sends nothing
\* and is not fatal.
C10_UnknownTypeDropped ==
    [][(ev'.kind = "message" /\ UnknownType(ev'.frame)) =>
          /\ UNCHANGED <<clientVars, runtimeVars, session, prevScreen, run>>
          /\ out' = <<>>
          /\ term' = <<>>
          /\ log' = <<"Unknown message type:">>]_vars

C10_UnknownTypeLogged ==
    /\ MessageEvent
    /\ UnknownType(ev.frame)
    /\ ev.frame.hasData
    /\ log = <<"Unknown message type:">>
    /\ ~exited

\* the last input was exit, quit or end-of-input (Ctrl+D)
ExitInput ==
    \/ ev.kind = "ctrlD"
    \/ ev.kind = "line" /\ Trim(ev.text) \in {Str_exit, Str_quit}

\* C11: on exit, quit or end-of-input the client sends no Command for that
\* input, closes the transport with code 1000, stops reconnecting and exits
\* with code 0, and nothing (no backoff expiry, no connect) happens after it;
\* end-of-input does exactly what exit does.
C11_ExitIsCleanShutdown ==
    [][/\ ExitInput' =>
            /\ SentCommands' = {}
            /\ out' = <<CloseOp(1000)>>
            /\ ~shouldReconnect'
            /\ exited' /\ exitCode' = 0
            /\ ws' = "null" /\ ~rl'
       /\ ExitInput => UNCHANGED vars]_vars

\* quit typed, surrounded by blanks, while a backoff delay is pending
C11_QuitDuringBackoff ==
    /\ ev.kind = "line" /\ ev.text # Str_quit /\ Trim(ev.text) = Str_quit
    /\ delay > 0
    /\ exited

\* the last callback logged the notice
Logged(notice) == \E i \in 1..Len(log) : log[i] = notice

\* C12: a line other than exit/quit typed while the connection is not
\* available is answered with the "Not connected to server" notice and sends
\* nothing; and the line is not kept for later: every Command ever sent is
\* sent by the handler of the very input it carries, with the connection
\* available at that moment.
C12_UnavailableLineDiscarded ==
    [][/\ (/\ ev'.kind = "line"
           /\ Trim(ev'.text) \notin {Str_exit, Str_quit}
           /\ (~connected \/ ws # "OPEN"))
          => /\ out' = <<>>
             /\ Logged("Not connected to server")'
             /\ ~exited'
       /\ SentCommands' # {} => connected /\ ws = "OPEN"
       /\ \A i \in SentCommands' :
             \/ ev'.kind = "line" /\ out'[i].command = Trim(ev'.text)
             \/ ev'.kind = "rlSigint" /\ out'[i].command = <<ETX>>]_vars

\* ls typed while the client waits to reconnect
C12_LineDuringBackoff ==
    /\ ev.kind = "line" /\ Trim(ev.text) = Str_ls
    /\ ws = "CLOSED" /\ delay > 0
    /\ out = <<>> /\ Logged("Not connected to server")

\* C13: a Ctrl+C given to readline becomes exactly one Command carrying the
\* byte 0x03, and only while the session is Active; while the connection is
\* not available it yields the "Not connected to server" notice and sends
\* nothing; and no interrupt, readline's or the process signal, ends the
\* client.
C13_InterruptTranslated ==
    [][/\ ev'.kind = "rlSigint" =>
            /\ ~exited'
            /\ SentCommands' # {} => session = "Active"
            /\ IF connected /\ ws = "OPEN"
               THEN session = "Active" => out' = <<CommandMsg(<<ETX>>)>>
               ELSE out' = <<>> /\ Logged("Not connected to server")'
       /\ ev'.kind = "SIGINT" => ~exited' /\ out' = <<>>]_vars

\* the control message session_ready with status creating
ReadyCreating(f) ==
    /\ f.type = "control" /\ f.action = "session_ready"
    /\ f.hasData /\ f.status = "creating"

\* C14: on an open connection session_ready/creating only records the session
\* id: the session stays AwaitingCreation and no input interface is started;
\* input is turned into Commands only once the session of the connection is
\* Active (after session_active, or session_ready with status active); and a
\* session that is Active never goes back to AwaitingCreation on the same
\* connection.
C14_ActivationGatesInput ==
    [][/\ (ev'.kind = "message" /\ ReadyCreating(ev'.frame)
             /\ session = "AwaitingCreation")
          => /\ session' = "AwaitingCreation"
             /\ sessionId' = ev'.frame.session_id
             /\ rl' = rl /\ terminals' = terminals
       /\ SentCommands' # {} => session = "Active"
       /\ session = "Active" => session' # "AwaitingCreation"]_vars

\* C15: while the transport is closing or closed no heartbeat timer is armed
\* and no heartbeat tick fires.
C15_HeartbeatCancelledOnClose ==
    ws \in {"CLOSING", "CLOSED"} => heartbeats = 0 /\ ev.kind # "heartbeat"

\* C16: a connect attempt whose timeout fires before the transport opened is
\* rejected with "Connection timeout", and no new connect attempt is made
\* after an attempt that ended that way, on the initial connect or on a
\* reconnect attempt.
C16_TimeoutNotRetried ==
    [][/\ (ev'.kind = "timeout" /\ promise = "pending")
          => promise' = "rejected" /\ rejectReason' = "Connection timeout"
       /\ rejectReason = "Connection timeout" => ev'.kind # "backoff"]_vars

\* the rejections of connect() that report an authentication or an
\* authorization failure
AuthRejections == {"Authentication failed", "Access denied"}

\* C17: an authentication or authorization failure is never retried.  A close
\* with code 4001 or 4003 arms no backoff, and a closed transport with no
\* backoff pending stays so: no connect attempt follows.  And after a connect
\* attempt rejected for a 401/403 handshake error no new connect attempt is
\* made, on the initial connect or on a reconnect attempt.
C17_AuthFailureNotRetried ==
    [][/\ (ev'.kind = "close" /\ ev'.code \in {4001, 4003})
          => ws' = "CLOSED" /\ delay' = 0
       /\ (ws = "CLOSED" /\ delay = 0)
          => ev'.kind # "backoff" /\ delay' = 0 /\ ws' \in {"CLOSED", "null"}
       /\ rejectReason \in AuthRejections => ev'.kind # "backoff"]_vars

\* C18: a connect attempt that failed with a network-level error before the
\* transport opened (no 401/403, no timeout) and has closed is eventually
\* followed by a new connect attempt, after its backoff, unless the client
\* shut down through cleanup (budget exhausted, or the user left); this on
\* the initial attempt as well as on reconnect attempts.
C18_NetworkErrorRetried ==
    (/\ ev.kind = "close"
     /\ promise = "rejected" /\ rejectReason = "network"
     /\ ~exited)
        ~> (ev.kind = "backoff" \/ (exited /\ ~shouldReconnect))

\* the last event was a terminal failure: a close with code 1000, 4001 or
\* 4003, a connect timeout, or the close that found the retry budget used up
TerminalFailure ==
    \/ ev.kind = "close" /\ ev.code \in TerminalCodes
    \/ ev.kind = "timeout"
    \/ ev.kind = "close" /\ Logged("Max reconnection attempts reached. Exiting.")

\* the state cleanup() or a failed start leaves: the process has exited
\* (which ends its timers) and the client holds no transport that is open or
\* opening
ShutDown == exited /\ ws \notin {"CONNECTING", "OPEN"}

\* C19: every terminal failure is eventually followed by the shutdown of the
\* client: it does not stay running, disconnected, for ever.
C19_TerminalFailureShutsDown == (TerminalFailure /\ ~exited) ~> ShutDown

\* C20: a termination signal of the process, interrupt or terminate, in any
\* state after the start runs the cleanup: the transport is closed with code
\* 1000, reconnection is off, the input interface is released and the
\* process exits (which ends its timers); and after that nothing happens any
\* more, so a second signal has no effect.
C20_SignalRunsCleanupOnce ==
    [][/\ ev'.kind \in {"SIGINT", "SIGTERM"} =>
            /\ out' = <<CloseOp(1000)>>
            /\ ~shouldReconnect'
            /\ ~rl'
            /\ exited' /\ exitCode' = 0
       /\ (exited /\ ev.kind \in {"SIGINT", "SIGTERM"}) => UNCHANGED vars]_vars

\* every inbound frame is handled, whole, by the callback that receives it,
\* and no other callback touches what the message handlers write
HandledOnDelivery ==
    /\ ev'.kind = "message" =>
          LET r == onMessage(HandlerState, ev'.frame) IN
            /\ sessionId' = r.sessionId /\ lastScreen' = r.lastScreen
            /\ session' = r.session /\ term' = r.term
    /\ ev'.kind # "message" =>
          sessionId' = sessionId /\ lastScreen' = lastScreen /\ term' = <<>>

\* the Commands a callback sends all carry the text, and only callbacks of
\* local input send Commands
CommandsCarry(text) ==
    /\ ev'.kind \notin {"line", "rlSigint"} => SentCommands' = {}
    /\ ev'.kind = "line" =>
          /\ \A i \in SentCommands' : out'[i].command = text
          /\ (connected /\ ws = "OPEN"
                /\ Trim(ev'.text) \notin {Str_exit, Str_quit})
              => SentCommands' # {}

\* C21 as stated: frames are handled in delivery order and lines are sent in
\* typed order, one at a time, each Command carrying the text of its line
\* unmodified.
C21_OrderAndTextPreserved ==
    [][HandledOnDelivery /\ CommandsCarry(ev'.text)]_vars

\* C21: frames are handled in delivery order and lines are sent in typed
\* order, one at a time, each Command carrying the text of its line with the
\* leading and trailing blanks removed.
C21_OrderAndTrimmedText ==
    [][HandledOnDelivery /\ CommandsCarry(Trim(ev'.text))]_vars

\* a line typed with blanks around it was sent
C21_PaddedLineSent ==
    /\ ev.kind = "line" /\ ev.text # Trim(ev.text)
    /\ SentCommands # {}
    /\ \A i \in SentCommands : out[i].command = Str_ls

\* the base URL with ws/wss for http/https and without a trailing /api/v1
VersionlessWsBase(url) ==
    ReplacePrefix(ReplacePrefix(RemoveSuffix(url, Str_apiV1), Str_http, Str_ws),
                  Str_https, Str_wss)

\* the query string of the transport URL
UrlQuery == Str_app \o applicationUuid \o Str_token \o token

\* the base URL with the trailing /api/v1 it lacks, or without the one it has
OtherBaseForm ==
    IF EndsWith(serverUrl, Str_apiV1)
    THEN RemoveSuffix(serverUrl, Str_apiV1)
    ELSE serverUrl \o Str_apiV1

\* C22 as stated: the transport URL is the base URL with the scheme rewritten
\* and the trailing /api/v1 removed, followed by /shell/connect?app=..&token=..;
\* the base URL with and without /api/v1 give the same transport URL.
C22_VersionlessUrl ==
    wsUrl # <<>> =>
        /\ wsUrl = VersionlessWsBase(serverUrl) \o Str_shellConnect \o UrlQuery
        /\ wsUrl = buildWebSocketUrl(OtherBaseForm, applicationUuid, token)

\* C22: the transport URL is the base URL with the scheme rewritten and the
\* trailing /api/v1 removed, followed by /api/v1/shell/connect?app=..&token=..;
\* the base URL with and without /api/v1 give the same transport URL.
C22_UrlWithVersionSegment ==
    wsUrl # <<>> =>
        /\ wsUrl = VersionlessWsBase(serverUrl) \o Str_apiV1
                        \o Str_shellConnect \o UrlQuery
        /\ wsUrl = buildWebSocketUrl(OtherBaseForm, applicationUuid, token)

\* a transport was created for an https base URL that ends in /api/v1
C22_HttpsVersionedBase ==
    /\ wsUrl # <<>> /\ StartsWith(wsUrl, Str_wss)
    /\ StartsWith(serverUrl, Str_https) /\ EndsWith(serverUrl, Str_apiV1)
    /\ Len(serverUrl) > Len(Str_https) + Len(Str_apiV1) + 1

\* the stored user has a session token and an e-mail address
HasSessionToken == user.stored /\ user.email /\ user.sessionToken

\* the expiry lies within the seven days after t and has not passed at t
ExpiresWithinSevenDays(t) ==
    /\ user.expiresAt.k = "date"
    /\ t < user.expiresAt.t
    /\ user.expiresAt.t <= t + SevenDaysMs

C24_OneInputInterface ==
    /\ terminals <= 1
    /\ ev.kind = "line" => Cardinality(SentCommands) <= 1

\* C25: whatever the order of open, error, close, connect timeout and
\* backoff expiry, a transport is created only when the previous one is
\* closed and no backoff or connect timeout is pending; a backoff is armed
\* only when none is pending, by the close of a transport, which leaves no
\* transport connecting or open; and the attempt counter grows only by one,
\* in the close event of a transport, of which there is one per transport.
C25_SingleReconnectChain ==
    [][/\ ev'.kind \in {"start", "backoff"} =>
            /\ ws \in {"null", "CLOSED"} /\ ~timeout
            /\ ws' = "CONNECTING" /\ delay' = 0
       /\ (delay' > 0 /\ delay' # delay) =>
            /\ delay = 0 /\ ~timeout'
            /\ ev'.kind = "close" /\ ws' = "CLOSED"
       /\ reconnectAttempts' > reconnectAttempts =>
            /\ reconnectAttempts' = reconnectAttempts + 1
            /\ ev'.kind = "close" /\ ws # "CLOSED" /\ ws' = "CLOSED"
       /\ ws = "CLOSED" =>
            ws' \in {"CLOSED", "null"} \/ ev'.kind = "backoff"]_vars

\* a reconnect attempt timed out and then closed: one failed connection
\* that produced several events and armed one backoff
C25_TimeoutErrorClose ==
    /\ ev.kind = "close" /\ caller = "handleReconnect"
    /\ rejectReason = "Connection timeout"
    /\ log = <<"Disconnected:", "Reconnecting in">>
    /\ reconnectAttempts = 2 /\ delay = 2 * BackoffUnit

\* C26: once cleanup has run (it is what turns reconnection off) the client
\* holds no transport and the process has exited, and from then on no
\* transport is created and no backoff is armed or expires, whatever timer
\* was pending.
C26_NoConnectAfterCleanup ==
    [][/\ ~shouldReconnect' => exited' /\ ws' = "null"
       /\ ~shouldReconnect =>
            /\ ev'.kind \notin {"start", "backoff", "close"}
            /\ ws' = ws /\ delay' = delay /\ wsUrl' = wsUrl]_vars

\* SIGTERM ended the client while a backoff timer was pending
C26_SigtermDuringBackoff ==
    ev.kind = "SIGTERM" /\ ~shouldReconnect /\ delay > 0

\* the Pings among the operations of the last callback
SentPings == {i \in 1..Len(out) : out[i].type = "ping"}

\* C27: a Ping is sent only by a heartbeat tick that finds the connection
\* open; a tick that finds it not open (closed, waiting in backoff,
\* reconnecting) sends nothing; and no tick logs an error or changes the
\* state of the client.  A Ping thus needs a connection that has opened.
C27_PingOnlyWhenOpen ==
    [][/\ SentPings' # {} =>
            ev'.kind = "heartbeat" /\ connected /\ ws = "OPEN"
       /\ ev'.kind = "heartbeat" =>
            /\ UNCHANGED <<clientVars, runtimeVars, historyVars>>
            /\ log' = <<>> /\ term' = <<>>
            /\ IF connected /\ ws = "OPEN"
               THEN SentPings' = 1..Len(out') /\ out' # <<>>
               ELSE out' = <<>>]_vars

\* a tick during a reconnect attempt
C27_TickWhileReconnecting ==
    /\ ev.kind = "heartbeat" /\ out = <<>>
    /\ ws = "CONNECTING" /\ caller = "handleReconnect"

\* C28: at most one heartbeat timer is ever armed: it is armed by shell()
\* when the first connect() has resolved, no reconnection arms another, and
\* a tick sends at most one Ping.
C28_OneHeartbeatTimer ==
    [][/\ heartbeats' <= 1
       /\ heartbeats' # heartbeats =>
            /\ heartbeats = 0 /\ heartbeats' = 1
            /\ ev'.kind = "connected" /\ caller = "shell"
            /\ connected /\ attemptsAtOpen = 0
       /\ Cardinality(SentPings') <= 1]_vars

\* a tick sent a Ping on a connection that a reconnection opened
C28_PingAfterReconnection ==
    /\ ev.kind = "heartbeat" /\ Cardinality(SentPings) = 1
    /\ caller = "handleReconnect" /\ attemptsAtOpen > 0

\* C29: the last-rendered snapshot starts empty and changes only when an
\* output message whose snapshot differs from it is rendered; it then becomes
\* the whole incoming snapshot.  An output message with the same snapshot
\* paints nothing, and every other event (other messages, malformed frames,
\* close, reconnection, input) leaves it as it is.
C29_LastScreenChanges ==
    /\ lastScreen = <<>>
    /\ [][IF ev'.kind = "message" /\ WellFormedOutput(ev'.frame)
          THEN IF ev'.frame.screen.v # lastScreen
               THEN /\ lastScreen' = ev'.frame.screen.v
                    /\ term' = <<Display(ev'.frame.screen.v)>>
               ELSE lastScreen' = lastScreen /\ term' = <<>>
          ELSE lastScreen' = lastScreen]_vars

\* on a connection opened by a reconnection, a snapshot longer than the
\* window was painted and kept whole
C29_LongSnapshotKeptWhole ==
    /\ ev.kind = "message" /\ WellFormedOutput(ev.frame)
    /\ attemptsAtOpen > 0
    /\ lastScreen = ev.frame.screen.v
    /\ term # <<>> /\ term # <<lastScreen>>

\* C30: the process exits with code 0 exactly when the user asked for the
\* end (exit, quit, end-of-input, termination signal); an exit caused by a
\* failure (failed initial connect, exhausted retry budget) has another code.
C30_ExitCodeTellsFailure ==
    exited => (exitCode = 0 <=> (ExitInput \/ ev.kind = "SIGTERM"))

====
